---- MODULE Spec2Model ----
(***************************************************************************)
(* Model of the workflow controller of workflow/controller/controller.go:  *)
(* the pod reconciler (handlePodUpdate, inferFailedReason, applyUpdates),  *)
(* the completed-pod cache and the controller config (updateConfig).       *)
(***************************************************************************)
EXTENDS Integers, Sequences, FiniteSets, TLC

\* ------------------------------------------------------------------ bounds

\* Timestamps range over 0..MaxTime; 0 is Go's zero time.
MaxTime == 2

\* ------------------------------------------------------------------ values

Nil == "nil"
Absent == "<absent>"

NodePending == "Pending"
NodeRunning == "Running"
NodeSucceeded == "Succeeded"
NodeSkipped == "Skipped"
NodeFailed == "Failed"
NodeError == "Error"

PodPending == "Pending"
PodRunning == "Running"
PodSucceeded == "Succeeded"
PodFailed == "Failed"
PodUnknown == "Unknown"

MainContainerName == "main"
WaitContainerName == "wait"

\* A pod is identified in the cluster by namespace and name; the cache and the
\* workflow's status.nodes know it by name. The cluster has a pod of the same
\* name in each of two namespaces.
Names == {"pod1"}
Namespaces == {"ns1", "ns2"}
Pods == Namespaces \X Names
\* The namespaces whose pods the pod watch delivers in Spec.
ObservedNamespaces == {"ns1"}

\* ------------------------------------------------------------------ NodeStatus

\* The node the operator created for a pod: not terminal, nothing recorded.
NewNode(phase) ==
    [phase |-> phase, daemoned |-> Nil, podIP |-> "", outputs |-> Nil,
     message |-> "", finishedAt |-> 0]

NoNode == [phase |-> "<none>"]

Completed(node) ==
    node.phase \in {NodeSucceeded, NodeFailed, NodeError, NodeSkipped}

IsDaemoned(node) ==
    ~(node.daemoned = Nil \/ node.daemoned = "false")

\* ------------------------------------------------------------------ decoding

\* json.Unmarshal of the outputs annotation into wfv1.Outputs.
OutputsJSON == {"{\"result\":\"a\"}", "{\"result\":\"b\"}"}
DecodeOutputs(str) ==
    IF str = "{\"result\":\"a\"}" THEN [err |-> FALSE, outputs |-> "result=a"]
    ELSE IF str = "{\"result\":\"b\"}" THEN [err |-> FALSE, outputs |-> "result=b"]
    ELSE [err |-> TRUE, outputs |-> Nil]

\* json.Unmarshal of the template annotation into wfv1.Template (its Daemon field).
DecodeTemplate(str) ==
    IF str = "{}" THEN [err |-> FALSE, daemon |-> Nil]
    ELSE IF str = "{\"daemon\":false}" THEN [err |-> FALSE, daemon |-> "false"]
    ELSE IF str = "{\"daemon\":true}" THEN [err |-> FALSE, daemon |-> "true"]
    ELSE [err |-> TRUE, daemon |-> Nil]

\* ------------------------------------------------------------------ containers

\* apiv1.ContainerStatus: terminated = FALSE is State.Terminated == nil.
Ctr(name, ready, terminated, exitCode, message, finishedAt) ==
    [name |-> name, ready |-> ready, terminated |-> terminated,
     exitCode |-> exitCode, message |-> message, finishedAt |-> finishedAt]

\* ------------------------------------------------------------------ inferFailedReason

\* errMsg followed by ": " and the first non-empty of the two messages, if any.
WithSuffix(errMsg, annotatedMsg, terminatedMsg) ==
    IF annotatedMsg # "" THEN errMsg \o ": " \o annotatedMsg
    ELSE IF terminatedMsg # "" THEN errMsg \o ": " \o terminatedMsg
    ELSE errMsg

\* The first init container, in declared order, that terminated with a non-zero
\* exit code; 0 when there is none.
RECURSIVE FirstFailedInit(_, _)
FirstFailedInit(ctrs, i) ==
    IF i > Len(ctrs) THEN 0
    ELSE IF ~ctrs[i].terminated THEN FirstFailedInit(ctrs, i + 1)
    ELSE IF ctrs[i].exitCode = 0 THEN FirstFailedInit(ctrs, i + 1)
    ELSE i

\* The message recorded in failMessages for a failed container.
FailMessage(ctr, annotatedMsg) ==
    IF ctr.name = WaitContainerName
    THEN WithSuffix("failed to save artifacts", annotatedMsg, ctr.message)
    ELSE IF ctr.message # "" THEN ctr.message
    ELSE "failed with exit code " \o ToString(ctr.exitCode)

\* The failMessages map after the loop over ContainerStatuses[1..i]: a function
\* from the names of the failed containers to their messages (a later container
\* of the same name overwrites an earlier one).
RECURSIVE FailMessages(_, _, _)
FailMessages(ctrs, i, annotatedMsg) ==
    IF i = 0 THEN <<>>
    ELSE LET prev == FailMessages(ctrs, i - 1, annotatedMsg)
             ctr == ctrs[i]
         IN  IF ~ctr.terminated THEN prev
             ELSE IF ctr.exitCode = 0 THEN prev
             ELSE [n \in (DOMAIN prev) \cup {ctr.name} |->
                      IF n = ctr.name THEN FailMessage(ctr, annotatedMsg) ELSE prev[n]]

Reason(phase, message) ==
    [phase |-> phase, daemon |-> "false", message |-> message]

\* The entries a `for range` over the map can yield first. Go randomises the
\* iteration order of a map, so any entry can be the first one.
RangeFirst(failMessages) ==
    {failMessages[n] : n \in DOMAIN failMessages}

\* Mutant of inferFailedReason: the wait container is looked up before the
\* main container.
inferFailedReasonWaitFirst(pod) ==
    IF pod.statusMessage # "" THEN {Reason(NodeFailed, pod.statusMessage)}
    ELSE
      LET annotatedMsg == IF pod.nodeMessageAnn = Absent THEN "" ELSE pod.nodeMessageAnn
          init == FirstFailedInit(pod.initContainerStatuses, 1)
          failMessages == FailMessages(pod.containerStatuses, Len(pod.containerStatuses),
                                       annotatedMsg)
      IN  IF init # 0
          THEN {Reason(NodeError, WithSuffix("failed to load artifacts", annotatedMsg,
                                             pod.initContainerStatuses[init].message))}
          ELSE IF WaitContainerName \in DOMAIN failMessages
          THEN {Reason(NodeError, failMessages[WaitContainerName])}
          ELSE IF MainContainerName \in DOMAIN failMessages
          THEN {Reason(NodeFailed, failMessages[MainContainerName])}
          ELSE IF DOMAIN failMessages # {}
          THEN {Reason(NodeFailed, m) : m \in RangeFirst(failMessages)}
          ELSE {Reason(NodeFailed, "pod failed for unknown reason")}

\* The set of results inferFailedReason can return for a pod.
inferFailedReason(pod) ==
    IF pod.statusMessage # "" THEN {Reason(NodeFailed, pod.statusMessage)}
    ELSE
      LET annotatedMsg == IF pod.nodeMessageAnn = Absent THEN "" ELSE pod.nodeMessageAnn
          init == FirstFailedInit(pod.initContainerStatuses, 1)
          failMessages == FailMessages(pod.containerStatuses, Len(pod.containerStatuses),
                                       annotatedMsg)
      IN  IF init # 0
          THEN {Reason(NodeError, WithSuffix("failed to load artifacts", annotatedMsg,
                                             pod.initContainerStatuses[init].message))}
          ELSE IF MainContainerName \in DOMAIN failMessages
          THEN {Reason(NodeFailed, failMessages[MainContainerName])}
          ELSE IF WaitContainerName \in DOMAIN failMessages
          THEN {Reason(NodeError, failMessages[WaitContainerName])}
          ELSE IF DOMAIN failMessages # {}
          THEN {Reason(NodeFailed, m) : m \in RangeFirst(failMessages)}
          ELSE {Reason(NodeFailed, "pod failed for unknown reason")}

\* ------------------------------------------------------------------ applyUpdates

\* Lines 573-583: the phase changes only when it differs and the node is not
\* completed.
applyPhase(st, newPhase) ==
    IF st.node.phase # newPhase /\ ~Completed(st.node)
    THEN [node |-> [st.node EXCEPT !.phase = newPhase], updateNeeded |-> TRUE]
    ELSE st

\* Lines 584-600: an explicit false counts as nil; daemoned changes on a flip
\* of presence, and podIP is copied with it.
applyDaemon(st, pod, newDaemonStatus) ==
    IF newDaemonStatus = Nil THEN st
    ELSE LET nds == IF newDaemonStatus = "false" THEN Nil ELSE newDaemonStatus
         IN  IF (nds # Nil /\ st.node.daemoned = Nil) \/ (nds = Nil /\ st.node.daemoned # Nil)
             THEN [node |-> [st.node EXCEPT !.daemoned = nds, !.podIP = pod.podIP],
                   updateNeeded |-> TRUE]
             ELSE st

\* Mutant of applyOutputs: outputs are decoded whenever the annotation is
\* there, also when the node has outputs.
applyOutputsOverwriting(st, pod) ==
    IF pod.outputsAnn # Absent
    THEN LET dec == DecodeOutputs(pod.outputsAnn)
         IN  IF dec.err
             THEN [node |-> [st.node EXCEPT !.phase = NodeError], updateNeeded |-> TRUE]
             ELSE [node |-> [st.node EXCEPT !.outputs = dec.outputs], updateNeeded |-> TRUE]
    ELSE st

\* Lines 601-613: outputs are decoded when the annotation is there and the
\* node has none; a decoding error sets the phase to Error.
applyOutputs(st, pod) ==
    IF pod.outputsAnn # Absent /\ st.node.outputs = Nil
    THEN LET dec == DecodeOutputs(pod.outputsAnn)
         IN  IF dec.err
             THEN [node |-> [st.node EXCEPT !.phase = NodeError], updateNeeded |-> TRUE]
             ELSE [node |-> [st.node EXCEPT !.outputs = dec.outputs], updateNeeded |-> TRUE]
    ELSE st

\* Lines 614-617: the message is assigned; updateNeeded is not touched.
applyMessage(st, message) ==
    IF message # "" /\ st.node.message # message
    THEN [st EXCEPT !.node.message = message]
    ELSE st

\* Mutant of LatestFinishedAt: the timestamp of the last terminated container
\* is taken, later or not.
RECURSIVE LatestFinishedAtLast(_, _, _)
LatestFinishedAtLast(ctrs, i, fin) ==
    IF i = 0 THEN fin
    ELSE LET prev == LatestFinishedAtLast(ctrs, i - 1, fin)
         IN  IF ctrs[i].terminated THEN ctrs[i].finishedAt ELSE prev

\* finishedAt after the loop over ctrs[1..i], starting from fin.
RECURSIVE LatestFinishedAt(_, _, _)
LatestFinishedAt(ctrs, i, fin) ==
    IF i = 0 THEN fin
    ELSE LET prev == LatestFinishedAt(ctrs, i - 1, fin)
         IN  IF ctrs[i].terminated /\ ctrs[i].finishedAt > prev
             THEN ctrs[i].finishedAt
             ELSE prev

\* Mutant of applyFinishedAt: finishedAt is computed again for a completed
\* node that has one.
applyFinishedAtOverwriting(st, pod, now) ==
    IF Completed(st.node)
    THEN LET f1 == IF ~IsDaemoned(st.node)
                   THEN LatestFinishedAt(pod.initContainerStatuses,
                                         Len(pod.initContainerStatuses), 0)
                   ELSE 0
             f2 == IF ~IsDaemoned(st.node)
                   THEN LatestFinishedAt(pod.containerStatuses,
                                         Len(pod.containerStatuses), f1)
                   ELSE f1
             f3 == IF f2 = 0 THEN now ELSE f2
         IN  [node |-> [st.node EXCEPT !.finishedAt = f3], updateNeeded |-> TRUE]
    ELSE st

\* Lines 618-639: a completed node with a zero finishedAt gets the latest
\* container timestamp (not daemoned), or the current time.
applyFinishedAt(st, pod, now) ==
    IF Completed(st.node) /\ st.node.finishedAt = 0
    THEN LET f0 == st.node.finishedAt
             f1 == IF ~IsDaemoned(st.node)
                   THEN LatestFinishedAt(pod.initContainerStatuses,
                                         Len(pod.initContainerStatuses), f0)
                   ELSE f0
             f2 == IF ~IsDaemoned(st.node)
                   THEN LatestFinishedAt(pod.containerStatuses,
                                         Len(pod.containerStatuses), f1)
                   ELSE f1
             f3 == IF f2 = 0 THEN now ELSE f2
         IN  [node |-> [st.node EXCEPT !.finishedAt = f3], updateNeeded |-> TRUE]
    ELSE st

\* applyUpdates: the node on return and the returned updateNeeded.
applyUpdates(pod, node, newPhase, newDaemonStatus, message, now) ==
    LET s0 == [node |-> node, updateNeeded |-> FALSE]
        s1 == applyPhase(s0, newPhase)
        s2 == applyDaemon(s1, pod, newDaemonStatus)
        s3 == applyOutputs(s2, pod)
        s4 == applyMessage(s3, message)
    IN  applyFinishedAt(s4, pod, now)

\* ------------------------------------------------------------------ pods

TemplateAnns == {Absent, "{bad", "{}", "{\"daemon\":false}", "{\"daemon\":true}"}
OutputsAnns == {Absent, "{bad"} \cup OutputsJSON

\* An apiv1.Pod, reduced to the fields the controller reads.
Pod(id, phase, statusMessage, podIP, tmplAnn, outputsAnn, nodeMessageAnn, inits, ctrs) ==
    [namespace |-> id[1], name |-> id[2], labelCompleted |-> "",
     hasWorkflowLabel |-> TRUE, phase |-> phase, statusMessage |-> statusMessage,
     podIP |-> podIP, tmplAnn |-> tmplAnn, outputsAnn |-> outputsAnn,
     nodeMessageAnn |-> nodeMessageAnn,
     initContainerStatuses |-> inits, containerStatuses |-> ctrs]

PodId(pod) == <<pod.namespace, pod.name>>

RunningCtr(name, ready) == Ctr(name, ready, FALSE, 0, "", 0)
ExitedCtr(name, exitCode, message, finishedAt) ==
    Ctr(name, FALSE, TRUE, exitCode, message, finishedAt)

PendingPod(id) == Pod(id, PodPending, "", "", Absent, Absent, Absent, <<>>, <<>>)

RunningPods(id) ==
    {Pod(id, PodRunning, "", "10.0.0.1", t, Absent, Absent,
         <<ExitedCtr("init", 0, "", 1)>>,
         <<RunningCtr(MainContainerName, TRUE), RunningCtr(WaitContainerName, TRUE)>>) :
       t \in TemplateAnns \ {"{\"daemon\":true}"}}
    \cup
    {Pod(id, PodRunning, "", "10.0.0.1", "{\"daemon\":true}", o, Absent,
         <<ExitedCtr("init", 0, "", 1)>>,
         <<RunningCtr(MainContainerName, r), RunningCtr(WaitContainerName, TRUE)>>) :
       o \in OutputsAnns, r \in BOOLEAN}

UnknownPods(id) ==
    {Pod(id, PodUnknown, "", "10.0.0.1", "{}", o, Absent,
         <<ExitedCtr("init", 0, "", 1)>>,
         <<RunningCtr(MainContainerName, FALSE), RunningCtr(WaitContainerName, FALSE)>>) :
       o \in {Absent, "{bad"}}

SucceededPods(id) ==
    {Pod(id, PodSucceeded, "", IF t1 = 0 THEN "" ELSE "10.0.0.1", "{}", o, Absent,
         <<ExitedCtr("init", 0, "", IF t1 = 0 THEN 0 ELSE 1)>>,
         <<ExitedCtr(MainContainerName, 0, "", t1), ExitedCtr(WaitContainerName, 0, "", t2)>>) :
       o \in OutputsAnns, t1 \in 0..MaxTime, t2 \in {0, MaxTime}}

\* The container outcomes of the Failed pods.
FailedShapes ==
    { [inits |-> <<ExitedCtr("init", 1, "no such key", 1)>>, ctrs |-> <<>>],
      [inits |-> <<ExitedCtr("init", 0, "", 1)>>,
       ctrs |-> <<ExitedCtr(MainContainerName, 2, "oom", 1),
                  ExitedCtr(WaitContainerName, 1, "upload 500", MaxTime)>>],
      [inits |-> <<ExitedCtr("init", 0, "", 1)>>,
       ctrs |-> <<ExitedCtr(MainContainerName, 0, "", 1),
                  ExitedCtr(WaitContainerName, 1, "", MaxTime)>>],
      [inits |-> <<>>,
       ctrs |-> <<ExitedCtr(MainContainerName, 0, "", 1),
                  ExitedCtr(WaitContainerName, 0, "", 1),
                  ExitedCtr("db", 137, "", MaxTime),
                  ExitedCtr("cache", 1, "killed", 1)>>],
      [inits |-> <<>>,
       ctrs |-> <<ExitedCtr(MainContainerName, 0, "", 0),
                  ExitedCtr(WaitContainerName, 0, "", 0)>>] }

FailedPods(id) ==
    {Pod(id, PodFailed, "", "10.0.0.1", "{}", o, Absent, sh.inits, sh.ctrs) :
       o \in {Absent, "{bad"}, sh \in FailedShapes}
    \cup
    {Pod(id, PodFailed, "evicted", "10.0.0.1", "{}", o, Absent, <<>>, <<>>) :
       o \in {Absent, "{\"result\":\"a\"}"}}

\* A pod without the workflow label.
UnrelatedPods(id) ==
    {[Pod(id, PodSucceeded, "", "", Absent, Absent, Absent, <<>>, <<>>)
        EXCEPT !.hasWorkflowLabel = FALSE]}

\* The pod objects the cluster can hold for a pod.
PodObjects(id) ==
    {PendingPod(id)} \cup RunningPods(id) \cup UnknownPods(id) \cup SucceededPods(id)
        \cup FailedPods(id) \cup UnrelatedPods(id)

\* Pod phases only advance: Pending, then Running or Unknown, then Succeeded or
\* Failed, where the pod stays.
Rank(phase) ==
    IF phase = PodPending THEN 0
    ELSE IF phase \in {PodRunning, PodUnknown} THEN 1
    ELSE 2

\* ------------------------------------------------------------------ state

VARIABLES
    pods,               \* the cluster: Pods -> the pod object
    wfNodes,            \* the cluster: Pods -> the node of the pod in its workflow's status.nodes
    completedPodCache,  \* wfc.completedPodCache: the pod names it holds
    op,                 \* the operation that made the last step
    pod,                \* the pod passed to handlePodUpdate, when the last step was a call of it
    ret,                \* what that call did, and what it found on entry
    expired,            \* the pod names whose cache entry has expired at some time
    Config,             \* wfc.Config
    cm,                 \* the ConfigMap last passed to updateConfig
    cmErr,              \* whether that call returned an error
    configBefore,       \* wfc.Config when that call began
    fpod,               \* the pod last passed to inferFailedReason
    reasons,            \* the results of two runs of inferFailedReason on fpod
    wfUpdates,          \* wfc.wfUpdates: the workflow events in the channel
    podUpdates,         \* wfc.podUpdates: the pod events in the channel
    sending,            \* per stream: the event its informer handler is sending, if any
    sent,               \* per stream: the version the informer delivers next
    pc,                 \* where the goroutine of Run is
    executing,          \* per handler: the calls of it that have not returned
    runI,               \* the counter i of Run
    iters,              \* how many times the loop of Run has begun an iteration
    emitted,            \* how many telemetry lines Run has logged
    cancelled,          \* whether ctx is cancelled
    received,           \* per stream, how many events Run has received (modulo NumVersions)
    inOrder,            \* per stream, whether every event was received in its turn
    storing,            \* the fields the assignment wfc.Config = config has yet to store
    wlocal,             \* the local variable config of the updateConfig that stores
    watchNamespace,     \* the variable namespace of newWorkflowWatch, once it has run
    req                 \* the namespace and label selector of the last list or watch request

vars == <<pods, wfNodes, completedPodCache, op, pod, ret, expired, Config, cm, cmErr,
          configBefore, fpod, reasons, wfUpdates, podUpdates, sending, sent, pc,
          executing, runI, iters, emitted, cancelled, received, inOrder, storing, wlocal, watchNamespace,
          req>>
podVars == <<pods, wfNodes, completedPodCache, pod, ret, expired>>
configVars == <<Config, cm, cmErr, configBefore>>
inferVars == <<fpod, reasons>>
runVars == <<wfUpdates, podUpdates, sending, sent, pc, executing, runI, iters, emitted,
             cancelled, received, inOrder>>
raceVars == <<storing, wlocal, watchNamespace, req>>

\* ------------------------------------------------------------------ handlePodUpdate

\* What a call of handlePodUpdate that returned at once did: nothing.
NoEffect ==
    [seen |-> FALSE, read |-> FALSE, applied |-> FALSE, entry |-> NoNode, node |-> NoNode,
     newPhase |-> "", newDaemonStatus |-> Nil, message |-> "", updateNeeded |-> FALSE,
     wrote |-> FALSE, writeOK |-> FALSE, labelCalled |-> FALSE, labelOK |-> FALSE,
     cacheSet |-> FALSE, redelivered |-> FALSE, afterFailedWrite |-> FALSE, now |-> 0,
     cacheBefore |-> {}, nodeBefore |-> NoNode, labelBefore |-> ""]

\* Mutant of seen: the cache is never consulted.
seenNever(cache, p) == FALSE

\* Line 386: completedPodCache.Get(pod.ObjectMeta.Name).
seen(cache, p) == p.name \in cache

\* Line 389: the pod carries completed=true.
IsLabelledCompleted(p) == p.labelCompleted = "true"

\* Lines 398-442: the switch on the pod phase. Each element is a way the switch
\* can end: a return, or the values handed to applyUpdates.
Derived(newPhase, newDaemonStatus, message) ==
    [return |-> FALSE, newPhase |-> newPhase, newDaemonStatus |-> newDaemonStatus,
     message |-> message]
Return == [return |-> TRUE, newPhase |-> "", newDaemonStatus |-> Nil, message |-> ""]

\* Mutant of AllReady: the Ready flags are not looked at.
AllReadyIgnored(ctrs) == TRUE

\* Lines 429-434: every container status has Ready set.
AllReady(ctrs) == \A i \in 1..Len(ctrs) : ctrs[i].ready

derive(p) ==
    IF p.phase = PodPending THEN {Return}
    ELSE IF p.phase = PodSucceeded THEN {Derived(NodeSucceeded, "false", "")}
    ELSE IF p.phase = PodFailed
    THEN {Derived(r.phase, r.daemon, r.message) : r \in inferFailedReason(p)}
    ELSE IF p.phase = PodRunning
    THEN IF p.tmplAnn = Absent THEN {Return}
         ELSE LET tmpl == DecodeTemplate(p.tmplAnn)
              IN  IF tmpl.err THEN {Return}
                  ELSE IF tmpl.daemon = Nil \/ tmpl.daemon = "false" THEN {Return}
                  ELSE IF ~AllReady(p.containerStatuses) THEN {Return}
                  ELSE {Derived(NodeSucceeded, "true", "")}
    ELSE {Derived(NodeError, Nil, "")}

\* Mutant of SetDefault: the name is not recorded.
SetDefaultDropped(cache, name) == cache

\* Line 481: completedPodCache.SetDefault(pod.ObjectMeta.Name, true).
SetDefault(cache, name) == cache \cup {name}

\* Mutant of ShouldLabel: a daemoned node's pod is labelled too.
ShouldLabelDaemoned(node) == Completed(node)

\* Lines 469-475: the pod is labelled when the node is completed and not daemoned.
ShouldLabel(node) == Completed(node) /\ ~IsDaemoned(node)

\* Lines 456-467: the workflow is written when applyUpdates asked for it.
ShouldWrite(updateNeeded) == updateNeeded

\* Mutant of WriteFailed: the pod is remembered as done although the write
\* failed.
WriteFailedCached(e) == [e EXCEPT !.cacheSet = TRUE]

\* Lines 461-465: the workflow update returned an error; the handler logs it
\* and returns, keeping nothing.
WriteFailed(e) == e

\* Mutant of LabelFailed: the name is put in the cache before the error of the
\* label call is looked at.
LabelFailedCached(e) == [e EXCEPT !.labelCalled = TRUE, !.cacheSet = TRUE]

\* Lines 476-480: AddPodLabel returned an error; the handler logs it and
\* returns.
LabelFailed(e) == [e EXCEPT !.labelCalled = TRUE]

\* handlePodUpdate(p): the effects of one call, given what the switch derived
\* (d), whether GetWorkflow, UpdateWorkflow and AddPodLabel fail, and the
\* current time. At most one of the three calls fails, since the handler returns
\* at the first failure.
Effects(p, d, getErr, writeErr, labelErr, now) ==
    IF seen(completedPodCache, p) THEN [NoEffect EXCEPT !.seen = TRUE]
    ELSE IF IsLabelledCompleted(p) THEN NoEffect
    ELSE IF ~p.hasWorkflowLabel THEN NoEffect
    ELSE IF d.return THEN NoEffect
    ELSE IF getErr THEN [NoEffect EXCEPT !.read = TRUE]
    ELSE IF wfNodes[PodId(p)] = NoNode THEN [NoEffect EXCEPT !.read = TRUE]
    ELSE
      LET entry == wfNodes[PodId(p)]
          upd == applyUpdates(p, entry, d.newPhase, d.newDaemonStatus, d.message, now)
          e1 == [NoEffect EXCEPT !.read = TRUE, !.applied = TRUE, !.entry = entry,
                                 !.node = upd.node, !.updateNeeded = upd.updateNeeded,
                                 !.newPhase = d.newPhase,
                                 !.newDaemonStatus = d.newDaemonStatus,
                                 !.message = d.message]
          e2 == IF ShouldWrite(upd.updateNeeded)
                THEN [e1 EXCEPT !.wrote = TRUE, !.writeOK = ~writeErr]
                ELSE e1
      IN  IF e2.wrote /\ ~e2.writeOK THEN WriteFailed(e2)
          ELSE IF ~ShouldLabel(upd.node) THEN e2
          ELSE IF labelErr THEN LabelFailed(e2)
          ELSE [e2 EXCEPT !.labelCalled = TRUE, !.labelOK = TRUE, !.cacheSet = TRUE]

\* The call ran to its end: the node is persisted and the pod labelled, unless
\* the node is daemoned.
Reconciled(r) ==
    r.applied /\ (r.wrote => r.writeOK) /\ (r.labelCalled => r.labelOK)

\* The pod watch delivers a pod and the dispatch loop passes it to
\* handlePodUpdate. The pod delivered is the pod of the cluster, except that it
\* may still lack the completed label the controller has set on it.
Observe(id, fails) ==
    \E stale \in BOOLEAN, fail \in fails, now \in 1..MaxTime :
      LET p == IF stale THEN [pods[id] EXCEPT !.labelCompleted = ""] ELSE pods[id]
      IN  \E d \in derive(p) :
            LET e == Effects(p, d, fail = "get", fail = "write", fail = "label", now)
            IN  /\ op' = "handlePodUpdate"
                /\ pod' = p
                /\ ret' = [e EXCEPT !.redelivered =
                                       op = "handlePodUpdate" /\ pod = p /\ Reconciled(ret),
                                     !.afterFailedWrite =
                                       op = "handlePodUpdate" /\ pod = p
                                         /\ ret.wrote /\ ~ret.writeOK,
                                     !.now =
                                       IF e.applied /\ e.node.finishedAt # e.entry.finishedAt
                                       THEN now ELSE 0,
                                     !.cacheBefore = completedPodCache,
                                     !.nodeBefore = wfNodes[id],
                                     !.labelBefore = pods[id].labelCompleted]
                /\ wfNodes' = IF e.wrote /\ e.writeOK
                              THEN [wfNodes EXCEPT ![id] = e.node]
                              ELSE wfNodes
                /\ pods' = IF e.labelOK
                           THEN [pods EXCEPT ![id].labelCompleted = "true"]
                           ELSE pods
                /\ completedPodCache' = IF e.cacheSet
                                        THEN SetDefault(completedPodCache, p.name)
                                        ELSE completedPodCache
                /\ UNCHANGED <<expired, configVars, inferVars, runVars, raceVars>>

\* A call of handlePodUpdate in which any one of the cluster calls may fail.
handlePodUpdate(id) == Observe(id, {"none", "get", "write", "label"})

\* A call of handlePodUpdate in which no cluster call fails.
handlePodUpdateOK(id) == Observe(id, {"none"})

NoPod == PendingPod(<<"", "">>)

\* The cache drops an entry when its time to live (one hour) has passed.
ExpireCache ==
    \E n \in completedPodCache :
      /\ completedPodCache' = completedPodCache \ {n}
      /\ expired' = expired \cup {n}
      /\ op' = "expire"
      /\ pod' = NoPod /\ ret' = NoEffect
      /\ UNCHANGED <<pods, wfNodes, configVars, inferVars, runVars, raceVars>>

\* The cluster changes a pod: the kubelet and the executor advance its phase,
\* container statuses and annotations.
PodProgressIn(id, objects) ==
    /\ Rank(pods[id].phase) < 2
    /\ \E new \in objects :
      /\ Rank(new.phase) >= Rank(pods[id].phase)
      /\ new.phase # PodPending
      /\ pods' = [pods EXCEPT ![id] = [new EXCEPT !.labelCompleted = pods[id].labelCompleted]]
      /\ pods' # pods
      /\ op' = "progress"
      /\ pod' = NoPod /\ ret' = NoEffect
      /\ UNCHANGED <<wfNodes, completedPodCache, expired, configVars, inferVars, runVars, raceVars>>

\* The cluster changes a pod to any of the pod objects.
PodProgress(id) == PodProgressIn(id, PodObjects(id))

ObservedPods == ObservedNamespaces \X Names


\* ------------------------------------------------------------------ updateConfig

\* The text under the config key of a ConfigMap: a YAML document that gives
\* some of the keys of WorkflowControllerConfig, or text that is not YAML
\* (parses = FALSE).
Malformed ==
    [parses |-> FALSE, executorImage |-> Absent, namespace |-> Absent, matchLabels |-> Absent]
ConfigDocs ==
    [parses : {TRUE},
     executorImage : {Absent, "", "argoexec:v1", "argoexec:v2"},
     namespace : {Absent, "argo"},
     matchLabels : {Absent, "env=prod"}]
ConfigStrs == ConfigDocs \cup {Malformed}

\* A ConfigMap: its Data may lack the config key.
ConfigMaps ==
    {[hasKey |-> FALSE, configStr |-> Malformed]} \cup
    {[hasKey |-> TRUE, configStr |-> str] : str \in ConfigStrs}

\* The zero value of WorkflowControllerConfig.
ZeroConfig == [executorImage |-> "", namespace |-> "", matchLabels |-> ""]

Field(value) == IF value = Absent THEN "" ELSE value

\* yaml.Unmarshal into a zero WorkflowControllerConfig: a key the document
\* lacks keeps its zero value.
YamlUnmarshal(str) ==
    IF ~str.parses THEN [err |-> TRUE, config |-> ZeroConfig]
    ELSE [err |-> FALSE,
          config |-> [executorImage |-> Field(str.executorImage),
                      namespace |-> Field(str.namespace),
                      matchLabels |-> Field(str.matchLabels)]]

\* Mutant of updateConfig: the config is assigned before executorImage is
\* checked.
updateConfigMissingImageAccepted(config, c) ==
    IF ~c.hasKey THEN [err |-> TRUE, Config |-> config]
    ELSE LET y == YamlUnmarshal(c.configStr)
         IN  IF y.err THEN [err |-> TRUE, Config |-> config]
             ELSE IF y.config.executorImage = "" THEN [err |-> TRUE, Config |-> y.config]
             ELSE [err |-> FALSE, Config |-> y.config]

\* updateConfig(cm), called with wfc.Config = config: the returned error and
\* wfc.Config on return.
updateConfig(config, c) ==
    IF ~c.hasKey THEN [err |-> TRUE, Config |-> config]
    ELSE LET y == YamlUnmarshal(c.configStr)
         IN  IF y.err THEN [err |-> TRUE, Config |-> config]
             ELSE IF y.config.executorImage = "" THEN [err |-> TRUE, Config |-> config]
             ELSE [err |-> FALSE, Config |-> y.config]

\* The config watch delivers a ConfigMap (AddFunc, UpdateFunc) and the handler
\* calls updateConfig; the error is logged.
watchControllerConfigMap ==
    \E c \in ConfigMaps :
      LET r == updateConfig(Config, c)
      IN  /\ cm' = c
          /\ cmErr' = r.err
          /\ configBefore' = Config
          /\ Config' = r.Config
          /\ op' = "updateConfig"
          /\ UNCHANGED <<podVars, inferVars, runVars, raceVars>>

InitConfig ==
    /\ Config = ZeroConfig
    /\ cm = [hasKey |-> FALSE, configStr |-> Malformed]
    /\ cmErr = FALSE
    /\ configBefore = ZeroConfig

\* ------------------------------------------------------------------ readers of wfc.Config

ConfigFields == {"executorImage", "namespace", "matchLabels"}

\* No list or watch request has been made.
NoRequest == [namespace |-> Absent, matchLabels |-> Absent]

InitRace ==
    /\ storing = {}
    /\ wlocal = ZeroConfig
    /\ watchNamespace = Absent
    /\ req = NoRequest

\* The config watch delivers a ConfigMap and the handler, in the goroutine of
\* the config informer, runs updateConfig up to line 179: a payload that passes
\* the checks is in the local variable config, ready to be assigned.
updateConfigChecks ==
    /\ storing = {}
    /\ \E c \in ConfigMaps :
         LET r == updateConfig(Config, c)
         IN  /\ cm' = c
             /\ cmErr' = r.err
             /\ configBefore' = Config
             /\ wlocal' = r.Config
             /\ storing' = IF r.err THEN {} ELSE ConfigFields
    /\ op' = "updateConfig"
    /\ UNCHANGED <<Config, watchNamespace, req>>
    /\ UNCHANGED <<podVars, inferVars, runVars>>

\* Line 180: wfc.Config = config, a struct assignment under no lock; the
\* fields are stored one after the other, in an order the build chooses, while
\* the other goroutines run.
updateConfigStore ==
    /\ \E f \in storing :
         /\ Config' = [Config EXCEPT ![f] = wlocal[f]]
         /\ storing' = storing \ {f}
    /\ op' = "store"
    /\ UNCHANGED <<cm, cmErr, configBefore, wlocal, watchNamespace, req>>
    /\ UNCHANGED <<podVars, inferVars, runVars>>

\* Line 195: newWorkflowWatch reads wfc.Config.Namespace once, into the
\* variable namespace its two closures use.
newWorkflowWatch ==
    /\ watchNamespace = Absent
    /\ watchNamespace' = Config.namespace
    /\ op' = "newWorkflowWatch"
    /\ UNCHANGED <<storing, wlocal, req>>
    /\ UNCHANGED <<podVars, configVars, inferVars, runVars>>

\* Lines 185-190: the label selectors are read from wfc.Config.MatchLabels
\* when the request is built.
addLabelSelectors(request) == [request EXCEPT !.matchLabels = Config.matchLabels]

\* Lines 198-218: listFunc or watchFunc, run by the workflow informer, builds a
\* request for the namespace of the closure with the label selectors of the
\* config.
ListOrWatch ==
    /\ watchNamespace # Absent
    /\ req' = addLabelSelectors([namespace |-> watchNamespace, matchLabels |-> Absent])
    /\ op' = "list"
    /\ UNCHANGED <<storing, wlocal, watchNamespace>>
    /\ UNCHANGED <<podVars, configVars, inferVars, runVars>>

\* ------------------------------------------------------------------ Run

\* The capacities of the two channels (10240 and 102400 in
\* NewWorkflowController), scaled down.
wfUpdatesCap == 1
podUpdatesCap == 2

\* The versions an event can carry; an informer delivers them in turn.
NumVersions == 2

\* The count of iterations stops growing here.
MaxIters == 201

\* Line 134: i%100.
LogEvery == 100

Streams == {"wf", "pod"}
Chan(s) == IF s = "wf" THEN wfUpdates ELSE podUpdates
Cap(s) == IF s = "wf" THEN wfUpdatesCap ELSE podUpdatesCap

\* The handler the select statement calls for an event of a stream.
Handler(s) == IF s = "wf" THEN "operateWorkflow" ELSE "handlePodUpdate"
Handlers == {Handler(s) : s \in Streams}

InitRun ==
    /\ wfUpdates = <<>>
    /\ podUpdates = <<>>
    /\ sending = [s \in Streams |-> <<>>]
    /\ sent = [s \in Streams |-> 0]
    /\ pc = "loop"
    /\ executing = [h \in Handlers |-> 0]
    /\ runI = 0
    /\ iters = 0
    /\ emitted = 0
    /\ cancelled = FALSE
    /\ received = [s \in Streams |-> 0]
    /\ inOrder = [s \in Streams |-> TRUE]

\* An informer calls AddFunc, UpdateFunc or DeleteFunc of a stream with an
\* object; the informer runs until ctx is done, and calls its handlers one at a
\* time.
InformerDelivers(s) ==
    /\ ~cancelled
    /\ sending[s] = <<>>
    /\ sending' = [sending EXCEPT ![s] = <<sent[s]>>]
    /\ sent' = [sent EXCEPT ![s] = (sent[s] + 1) % NumVersions]
    /\ op' = "deliver"
    /\ UNCHANGED <<wfUpdates, podUpdates, pc, executing, runI, iters, emitted, cancelled>>
    /\ UNCHANGED <<received, inOrder>>
    /\ UNCHANGED <<podVars, configVars, inferVars, raceVars>>

\* wfc.wfUpdates <- wf: the send blocks while the channel is full.
watchWorkflows ==
    /\ sending["wf"] # <<>>
    /\ Len(wfUpdates) < wfUpdatesCap
    /\ wfUpdates' = Append(wfUpdates, sending["wf"][1])
    /\ sending' = [sending EXCEPT !["wf"] = <<>>]
    /\ op' = "send"
    /\ UNCHANGED <<podUpdates, sent, pc, executing, runI, iters, emitted, cancelled>>
    /\ UNCHANGED <<received, inOrder>>
    /\ UNCHANGED <<podVars, configVars, inferVars, raceVars>>

\* wfc.podUpdates <- pod: the send blocks while the channel is full.
watchWorkflowPods ==
    /\ sending["pod"] # <<>>
    /\ Len(podUpdates) < podUpdatesCap
    /\ podUpdates' = Append(podUpdates, sending["pod"][1])
    /\ sending' = [sending EXCEPT !["pod"] = <<>>]
    /\ op' = "send"
    /\ UNCHANGED <<wfUpdates, sent, pc, executing, runI, iters, emitted, cancelled>>
    /\ UNCHANGED <<received, inOrder>>
    /\ UNCHANGED <<podVars, configVars, inferVars, raceVars>>

\* Lines 134-138: the head of the loop body. i is incremented inside the if.
RunLoopHead ==
    /\ pc = "loop"
    /\ IF runI % LogEvery = 0
       THEN runI' = runI + 1 /\ emitted' = IF emitted < MaxIters THEN emitted + 1 ELSE emitted
       ELSE UNCHANGED <<runI, emitted>>
    /\ iters' = IF iters < MaxIters THEN iters + 1 ELSE iters
    /\ pc' = "select"
    /\ op' = "loop"
    /\ UNCHANGED <<wfUpdates, podUpdates, sending, sent, executing, cancelled>>
    /\ UNCHANGED <<received, inOrder>>
    /\ UNCHANGED <<podVars, configVars, inferVars, raceVars>>

\* Mutant of Call: the handler is started and the loop goes on (a go statement).
CallAsync(h) == "loop"

\* Lines 141 and 143: the handler is called; Run is in it until it returns.
Call(h) == h

\* Mutant of ChanRecv: the newest event of the channel is received, as from a
\* stack.
ChanRecvNewest(ch) == [ev |-> ch[Len(ch)], rest |-> SubSeq(ch, 1, Len(ch) - 1)]

\* Lines 140 and 142: a receive takes the oldest event out of the channel.
ChanRecv(ch) == [ev |-> Head(ch), rest |-> Tail(ch)]

\* Lines 139-144: the select statement receives from a channel that holds an
\* event and calls the handler.
RunSelect(s) ==
    /\ pc = "select"
    /\ Chan(s) # <<>>
    /\ wfUpdates' = IF s = "wf" THEN ChanRecv(wfUpdates).rest ELSE wfUpdates
    /\ podUpdates' = IF s = "pod" THEN ChanRecv(podUpdates).rest ELSE podUpdates
    /\ inOrder' = [inOrder EXCEPT ![s] = @ /\ ChanRecv(Chan(s)).ev = received[s]]
    /\ received' = [received EXCEPT ![s] = (@ + 1) % NumVersions]
    /\ executing' = [executing EXCEPT ![Handler(s)] = @ + 1]
    /\ pc' = Call(Handler(s))
    /\ op' = "select"
    /\ UNCHANGED <<sending, sent, runI, iters, emitted, cancelled>>
    /\ UNCHANGED <<podVars, configVars, inferVars, raceVars>>

\* A call of operateWorkflow or handlePodUpdate returns; Run, when it is in
\* the call, goes to the next iteration.
HandlerReturns(h) ==
    /\ executing[h] > 0
    /\ executing' = [executing EXCEPT ![h] = @ - 1]
    /\ pc' = IF pc = h THEN "loop" ELSE pc
    /\ op' = "return"
    /\ UNCHANGED <<wfUpdates, podUpdates, sending, sent, runI, iters, emitted, cancelled>>
    /\ UNCHANGED <<received, inOrder>>
    /\ UNCHANGED <<podVars, configVars, inferVars, raceVars>>

\* The caller of Run cancels ctx.
Cancel ==
    /\ ~cancelled
    /\ cancelled' = TRUE
    /\ op' = "cancel"
    /\ UNCHANGED <<wfUpdates, podUpdates, sending, sent, pc, executing, runI, iters, emitted>>
    /\ UNCHANGED <<received, inOrder>>
    /\ UNCHANGED <<podVars, configVars, inferVars, raceVars>>

\* ------------------------------------------------------------------ specifications

InitPods ==
    /\ pods = [id \in Pods |-> PendingPod(id)]
    /\ wfNodes \in [Pods -> {NoNode, NewNode(NodePending), NewNode(NodeRunning)}]
    /\ \A id \in Pods \ ObservedPods : wfNodes[id] = NewNode(NodePending)
    /\ completedPodCache = {}
    /\ pod = NoPod
    /\ ret = NoEffect
    /\ expired = {}

Init ==
    /\ InitPods
    /\ op = "init"
    /\ InitConfig
    /\ fpod = NoPod /\ reasons = <<>>
    /\ InitRun
    /\ InitRace

Next ==
    \/ \E id \in ObservedPods : handlePodUpdate(id)
    \/ \E id \in ObservedPods : PodProgress(id)
    \/ ExpireCache

Spec == Init /\ [][Next]_vars

\* The config subsystem alone.
InitPodsIdle ==
    /\ pods = [id \in Pods |-> PendingPod(id)]
    /\ wfNodes = [id \in Pods |-> NewNode(NodePending)]
    /\ completedPodCache = {}
    /\ pod = NoPod
    /\ ret = NoEffect
    /\ expired = {}

InitCfg ==
    /\ InitPodsIdle
    /\ op = "init"
    /\ InitConfig
    /\ fpod = NoPod /\ reasons = <<>>
    /\ InitRun
    /\ InitRace

NextCfg == watchControllerConfigMap

SpecConfig == InitCfg /\ [][NextCfg]_vars

\* The pod keeps being delivered (the informer's resync lists every pod
\* without the completed label) and the cluster calls succeed in the end: a
\* call of handlePodUpdate in which none fails is made again and again while it
\* has something to do.
\* Every pod has a node that no observation has touched yet.
InitFair ==
    /\ InitPodsIdle
    /\ op = "init"
    /\ InitConfig
    /\ fpod = NoPod /\ reasons = <<>>
    /\ InitRun
    /\ InitRace

\* The pod objects without an outputs annotation, the terminated ones with
\* few container outcomes.
FairPodObjects(id) ==
    {p \in PodObjects(id) :
       /\ p.outputsAnn = Absent
       /\ p.phase = PodSucceeded => p.podIP = ""
       /\ p.phase = PodFailed => p.initContainerStatuses = <<>>}

NextFair ==
    \/ \E id \in ObservedPods : handlePodUpdate(id)
    \/ \E id \in ObservedPods : PodProgressIn(id, FairPodObjects(id))
    \/ ExpireCache

FairSpec ==
    InitFair /\ [][NextFair]_vars /\ \A id \in ObservedPods : WF_vars(handlePodUpdateOK(id))

\* The pod watch of a controller whose Config.Namespace is empty: the request
\* names no namespace, and the pods of every namespace are observed.
WatchedPods == IF Config.namespace = "" THEN Pods ELSE {id \in Pods : id[1] = Config.namespace}

\* The pod objects of a pod that ran to its end without a daemon container:
\* Running with its template, then Succeeded or Failed.
PlainPodObjects(id) ==
    {p \in FairPodObjects(id) :
       /\ p.hasWorkflowLabel
       /\ p.nodeMessageAnn = Absent
       /\ p.statusMessage = ""
       /\ p.phase # PodUnknown
       /\ \A i \in 1..Len(p.containerStatuses) : p.containerStatuses[i].finishedAt <= 1}

NextAllNamespaces ==
    \/ \E id \in WatchedPods : handlePodUpdate(id)
    \/ \E id \in WatchedPods : PodProgressIn(id, PlainPodObjects(id))
    \/ ExpireCache

SpecAllNamespaces == InitFair /\ [][NextAllNamespaces]_vars

\* inferFailedReason alone, run twice on one Failed pod.
InferPods ==
    {Pod(<<"ns1", "pod1">>, PodFailed, m, "10.0.0.1", "{}", Absent, a, inits, ctrs) :
       m \in {"", "evicted"},
       a \in {Absent, "disk full"},
       inits \in {<<>>,
                  <<ExitedCtr("init", 0, "", 1)>>,
                  <<ExitedCtr("init", 0, "", 1), ExitedCtr("init2", 1, "no such key", 1)>>,
                  <<ExitedCtr("init", 1, "", 1), ExitedCtr("init2", 1, "no such key", 1)>>},
       ctrs \in {<<ExitedCtr(MainContainerName, em, IF em = 0 THEN "" ELSE mm, 1),
                   ExitedCtr(WaitContainerName, ew, IF ew = 0 THEN "" ELSE wm, 1),
                   ExitedCtr("db", ed, "", 1),
                   ExitedCtr("cache", ec, IF ec = 0 THEN "" ELSE "killed", 1)>> :
                   em \in {0, 2}, mm \in {"", "oom"}, ew \in {0, 1},
                   wm \in {"", "upload 500"}, ed \in {0, 137}, ec \in {0, 1}}
                \cup {<<>>, <<RunningCtr(MainContainerName, TRUE)>>}}

InferTwice ==
    /\ reasons = <<>>
    /\ \E r1 \in inferFailedReason(fpod), r2 \in inferFailedReason(fpod) :
         reasons' = <<r1, r2>>
    /\ op' = "inferFailedReason"
    /\ UNCHANGED <<podVars, configVars, fpod, runVars, raceVars>>

InitInfer ==
    /\ InitPodsIdle
    /\ op = "init"
    /\ InitConfig
    /\ fpod \in InferPods
    /\ reasons = <<>>
    /\ InitRun
    /\ InitRace

NextInfer == InferTwice

SpecInfer == InitInfer /\ [][NextInfer]_vars

\* The dispatch loop of Run and the two informers that feed it.
InitRunLoop ==
    /\ InitPodsIdle
    /\ op = "init"
    /\ InitConfig
    /\ fpod = NoPod /\ reasons = <<>>
    /\ InitRun
    /\ InitRace

NextRun ==
    \/ \E s \in Streams : InformerDelivers(s)
    \/ watchWorkflows
    \/ watchWorkflowPods
    \/ RunLoopHead
    \/ \E s \in Streams : RunSelect(s)
    \/ \E h \in Handlers : HandlerReturns(h)
    \/ Cancel

SpecRun == InitRunLoop /\ [][NextRun]_vars


\* The config informer, which replaces wfc.Config, beside the workflow
\* informer, which reads it.
InitConfigRace ==
    /\ InitPodsIdle
    /\ op = "init"
    /\ Config \in {[executorImage |-> "argoexec:v1", namespace |-> n, matchLabels |-> l] :
                     n \in {"", "argo"}, l \in {"", "env=prod"}}
    /\ cm = [hasKey |-> FALSE, configStr |-> Malformed]
    /\ cmErr = FALSE
    /\ configBefore = Config
    /\ fpod = NoPod /\ reasons = <<>>
    /\ InitRun
    /\ storing = {}
    /\ wlocal = Config
    /\ watchNamespace = Absent
    /\ req = NoRequest

NextConfigRace ==
    \/ updateConfigChecks
    \/ updateConfigStore
    \/ newWorkflowWatch
    \/ ListOrWatch

SpecConfigRace == InitConfigRace /\ [][NextConfigRace]_vars

\* ------------------------------------------------------------------ claims

Handled == op = "handlePodUpdate"

\* C1: a pod that carries completed=true, or whose name is in the completed-pod
\* cache, makes handlePodUpdate write nothing: no workflow update, no label
\* call, and the cache, the node and the pod's label are as they were.
C1_CompletedPodIgnored ==
    Handled /\ (pod.labelCompleted = "true" \/ pod.name \in ret.cacheBefore)
      => /\ ~ret.wrote
         /\ ~ret.labelCalled
         /\ completedPodCache = ret.cacheBefore
         /\ wfNodes[PodId(pod)] = ret.nodeBefore
         /\ pods[PodId(pod)].labelCompleted = ret.labelBefore

\* C1 witness: a straggler, a terminated pod delivered without the label while
\* its name is in the cache.
C1_Witness ==
    /\ Handled
    /\ pod.name \in ret.cacheBefore
    /\ pod.labelCompleted = ""
    /\ pod.phase = PodSucceeded
    /\ ret.nodeBefore # NoNode

\* C2: a node that is terminal on entry to applyUpdates has the same phase on
\* return.
C2_TerminalPhaseKept ==
    Handled /\ ret.applied /\ Completed(ret.entry) => ret.node.phase = ret.entry.phase

\* C3: when applyUpdates returns false, no field of the node differs from its
\* value before the call.
C3_FalseMeansUnchanged ==
    Handled /\ ret.applied /\ ~ret.updateNeeded => ret.node = ret.entry

C6_RedeliveryWritesNothing ==
    Handled /\ ret.redelivered => ~ret.wrote /\ ~ret.labelCalled

\* C8: in the node applyUpdates returns and in every persisted node, finishedAt
\* is non-zero exactly when the phase is terminal, and a finishedAt that is
\* non-zero on entry is the same on return.
C8_FinishedAt ==
    /\ \A id \in Pods :
         wfNodes[id] # NoNode => (wfNodes[id].finishedAt # 0 <=> Completed(wfNodes[id]))
    /\ Handled /\ ret.applied
         => /\ ret.node.finishedAt # 0 <=> Completed(ret.node)
            /\ ret.entry.finishedAt # 0 => ret.node.finishedAt = ret.entry.finishedAt

\* C8 witness: the node has a finishedAt and the pod's containers finished at
\* another, later time.
C8_Witness ==
    /\ Handled /\ ret.applied
    /\ ret.entry.finishedAt # 0
    /\ LatestFinishedAt(pod.containerStatuses, Len(pod.containerStatuses), 0)
         > ret.entry.finishedAt

\* C9: outputs that are set on entry are the same on return; outputs change
\* only when the annotation is present, the node had none and the annotation
\* decodes, and then they are the decoded value; when decoding fails, outputs
\* stay unset and the phase on return is Error.
C9_OutputsSetOnce ==
    Handled /\ ret.applied
      => /\ ret.entry.outputs # Nil => ret.node.outputs = ret.entry.outputs
         /\ ret.node.outputs # ret.entry.outputs
              => /\ pod.outputsAnn # Absent
                 /\ ret.entry.outputs = Nil
                 /\ ~DecodeOutputs(pod.outputsAnn).err
                 /\ ret.node.outputs = DecodeOutputs(pod.outputsAnn).outputs
         /\ pod.outputsAnn # Absent /\ ret.entry.outputs = Nil
              /\ DecodeOutputs(pod.outputsAnn).err
              => ret.node.outputs = Nil /\ ret.node.phase = NodeError

\* C9 witness: the node has outputs and the pod's annotation decodes to others.
C9_Witness ==
    /\ Handled /\ ret.applied
    /\ ret.entry.outputs # Nil
    /\ pod.outputsAnn \in OutputsJSON
    /\ DecodeOutputs(pod.outputsAnn).outputs # ret.entry.outputs

\* C10: the labeller is called only for a node that is terminal and not
\* daemoned after applyUpdates and whose state is persisted (the write
\* succeeded or none was needed, and the persisted node is terminal and not
\* daemoned with the same phase); a failed workflow write means no label call
\* and no cache insertion; a terminal daemoned node means no label call.
C10_LabelOnlyPersistedTerminal ==
    Handled
      => /\ ret.labelCalled
              => /\ ret.applied
                 /\ Completed(ret.node) /\ ~IsDaemoned(ret.node)
                 /\ ret.updateNeeded => ret.wrote /\ ret.writeOK
                 /\ ~ret.updateNeeded => ~ret.wrote
                 /\ Completed(wfNodes[PodId(pod)]) /\ ~IsDaemoned(wfNodes[PodId(pod)])
                 /\ wfNodes[PodId(pod)].phase = ret.node.phase
         /\ ret.wrote /\ ~ret.writeOK
              => /\ ~ret.labelCalled
                 /\ completedPodCache = ret.cacheBefore
                 /\ pods[PodId(pod)].labelCompleted = ret.labelBefore
         /\ ret.applied /\ Completed(ret.node) /\ IsDaemoned(ret.node)
              => /\ ~ret.labelCalled
                 /\ completedPodCache = ret.cacheBefore
                 /\ pods[PodId(pod)].labelCompleted = ret.labelBefore

\* C10 witness: the workflow write failed for a node that would be terminal
\* and not daemoned.
C10_Witness ==
    /\ Handled /\ ret.applied
    /\ ret.wrote /\ ~ret.writeOK
    /\ Completed(ret.node) /\ ~IsDaemoned(ret.node)

\* The payload of a ConfigMap is rejected: no config key, malformed text, or
\* no executorImage.
Rejected(c) ==
    \/ ~c.hasKey
    \/ ~c.configStr.parses
    \/ c.configStr.executorImage \in {Absent, ""}

\* C5: an update whose payload lacks the config key, is malformed or lacks
\* executorImage returns an error and leaves the config as it was; any other
\* payload returns no error and becomes the config.
C5_BadConfigRejected ==
    op = "updateConfig"
      => /\ Rejected(cm) => cmErr /\ Config = configBefore
         /\ ~Rejected(cm)
              => /\ ~cmErr
                 /\ Config = [executorImage |-> cm.configStr.executorImage,
                              namespace |-> Field(cm.configStr.namespace),
                              matchLabels |-> Field(cm.configStr.matchLabels)]

\* C5 witness: a config is in effect and a well-formed payload without
\* executorImage, with another namespace, is rejected.
C5_Witness ==
    /\ op = "updateConfig"
    /\ configBefore.executorImage # ""
    /\ cm.hasKey /\ cm.configStr.parses
    /\ cm.configStr.executorImage = Absent
    /\ Field(cm.configStr.namespace) # configBefore.namespace
    /\ cmErr

\* C7: two runs of inferFailedReason on the same pod return the same phase,
\* daemon status and message.
C7_InferDeterministic ==
    op = "inferFailedReason" => reasons[1] = reasons[2]

\* The containers of a status list that terminated with a non-zero exit code.
FailedCtrs(ctrs) == {i \in 1..Len(ctrs) : ctrs[i].terminated /\ ctrs[i].exitCode # 0}

\* A text with the optional suffix: the first non-empty of the node-message
\* annotation and the container's terminated.message.
Suffixed(text, p, c) ==
    LET m == IF p.nodeMessageAnn \notin {Absent, ""} THEN p.nodeMessageAnn ELSE c.message
    IN  IF m = "" THEN text ELSE text \o ": " \o m

\* The message of a failed container other than wait.
OwnMessage(c) ==
    IF c.message = "" THEN "failed with exit code " \o ToString(c.exitCode) ELSE c.message

\* The (phase, message) pairs the precedence of C11 allows for a Failed pod.
Expected(p) ==
    LET inits == p.initContainerStatuses
        ctrs == p.containerStatuses
        failed == FailedCtrs(ctrs)
        named(n) == {i \in failed : ctrs[i].name = n}
    IN  IF p.statusMessage # "" THEN {<<NodeFailed, p.statusMessage>>}
        ELSE IF FailedCtrs(inits) # {}
        THEN LET first == CHOOSE i \in FailedCtrs(inits) : \A j \in FailedCtrs(inits) : i <= j
             IN  {<<NodeError, Suffixed("failed to load artifacts", p, inits[first])>>}
        ELSE IF named(MainContainerName) # {}
        THEN {<<NodeFailed, OwnMessage(ctrs[i])>> : i \in named(MainContainerName)}
        ELSE IF named(WaitContainerName) # {}
        THEN {<<NodeError, Suffixed("failed to save artifacts", p, ctrs[i])>> :
                i \in named(WaitContainerName)}
        ELSE IF failed # {}
        THEN {<<NodeFailed, OwnMessage(ctrs[i])>> : i \in failed}
        ELSE {<<NodeFailed, "pod failed for unknown reason">>}

\* C11: for every Failed pod inferFailedReason returns daemoned = false and a
\* phase and message by this precedence: the pod's status message; the first
\* failed init container (Error, failed to load artifacts); the main container
\* (Failed, its message), also when wait failed; the wait container (Error,
\* failed to save artifacts); a failed sidecar (Failed, its message or its exit
\* code); else Failed, pod failed for unknown reason.
C11_FailedReasonPrecedence ==
    op = "inferFailedReason"
      => \A k \in 1..2 :
           /\ reasons[k].daemon = "false"
           /\ <<reasons[k].phase, reasons[k].message>> \in Expected(fpod)

\* C11 witness: main and wait both failed, no init container did, and the
\* result is main's.
C11_Witness ==
    /\ op = "inferFailedReason"
    /\ fpod.statusMessage = ""
    /\ FailedCtrs(fpod.initContainerStatuses) = {}
    /\ \E i, j \in FailedCtrs(fpod.containerStatuses) :
         /\ fpod.containerStatuses[i].name = MainContainerName
         /\ fpod.containerStatuses[j].name = WaitContainerName
    /\ reasons[1].phase = NodeFailed

\* C12: at most one call of operateWorkflow and handlePodUpdate is executing
\* at any time, and neither is executing twice, whatever the informers do.
C12_OneHandlerAtATime ==
    executing["operateWorkflow"] + executing["handlePodUpdate"] <= 1

\* C12 witness: handlePodUpdate is executing while a workflow event waits in
\* its channel and both informers are blocked sending.
C12_Witness ==
    /\ executing["handlePodUpdate"] = 1
    /\ wfUpdates # <<>>
    /\ sending["wf"] # <<>> /\ sending["pod"] # <<>>

\* C13: a reader of the config that runs beside a config update sees the
\* complete old config or the complete new one: the namespace and the label
\* selectors of every list or watch request are those of the config before the
\* last update or those of the config that update assigns, never the namespace
\* of one with the labels of another.
C13_ConfigReadWhole ==
    op = "list"
      => \E c \in {configBefore, wlocal} :
           req.namespace = c.namespace /\ req.matchLabels = c.matchLabels

\* A Running pod reaches the switch of handlePodUpdate: it is neither labelled
\* nor cached and carries the workflow label.
RunningObserved ==
    /\ Handled
    /\ pod.phase = PodRunning
    /\ pod.labelCompleted = "" /\ pod.name \notin ret.cacheBefore
    /\ pod.hasWorkflowLabel

\* The pod's template annotation marks a daemon and every container is ready.
DaemonReady(p) ==
    /\ p.tmplAnn = "{\"daemon\":true}"
    /\ \A k \in 1..Len(p.containerStatuses) : p.containerStatuses[k].ready

\* The call changed nothing in the cluster or the cache.
NothingChanged ==
    /\ ~ret.read /\ ~ret.wrote /\ ~ret.labelCalled
    /\ completedPodCache = ret.cacheBefore
    /\ wfNodes[PodId(pod)] = ret.nodeBefore
    /\ pods[PodId(pod)].labelCompleted = ret.labelBefore

\* C14 as stated: a Running pod that is not a ready daemon makes no cluster
\* read or write; a ready daemon makes the node Succeeded, daemoned, with the
\* pod's IP, and the pod is neither labelled nor cached.
C14_RunningPod ==
    RunningObserved
      => /\ ~DaemonReady(pod) => NothingChanged
         /\ DaemonReady(pod)
              => /\ ret.applied
                      => /\ ret.node.phase = NodeSucceeded
                         /\ ret.node.daemoned # Nil
                         /\ ret.node.podIP = pod.podIP
                 /\ ~ret.labelCalled
                 /\ completedPodCache = ret.cacheBefore
                 /\ pods[PodId(pod)].labelCompleted = ret.labelBefore

\* C14 amended: as C14, but the node of a ready daemon becomes Succeeded only
\* if it was not terminal and the outputs annotation does not fail to decode:
\* a decoding failure makes it Error, and otherwise a terminal node keeps its
\* phase; podIP is the pod's IP when daemoned was absent on entry and is
\* unchanged when it was present.
C14_RunningPodAmended ==
    RunningObserved
      => /\ ~DaemonReady(pod) => NothingChanged
         /\ DaemonReady(pod)
              => /\ ret.applied
                      => /\ ret.node.phase =
                              IF pod.outputsAnn # Absent /\ ret.entry.outputs = Nil
                                   /\ pod.outputsAnn \notin OutputsJSON
                              THEN NodeError
                              ELSE IF Completed(ret.entry) THEN ret.entry.phase
                              ELSE NodeSucceeded
                         /\ ret.node.daemoned # Nil
                         /\ ret.entry.daemoned = Nil => ret.node.podIP = pod.podIP
                         /\ ret.entry.daemoned # Nil => ret.node.podIP = ret.entry.podIP
                 /\ ~ret.labelCalled
                 /\ completedPodCache = ret.cacheBefore
                 /\ pods[PodId(pod)].labelCompleted = ret.labelBefore

\* C14 witness: a ready daemon pod makes a node that was not terminal
\* Succeeded and daemoned, and the workflow is written.
C14_Witness ==
    /\ RunningObserved /\ DaemonReady(pod)
    /\ ret.applied /\ ~Completed(ret.entry)
    /\ ret.wrote /\ ret.writeOK
    /\ wfNodes[PodId(pod)].phase = NodeSucceeded
    /\ wfNodes[PodId(pod)].daemoned = "true"
    /\ pods[PodId(pod)].labelCompleted = ""

\* C15: the dispatch loop emits its telemetry again and again, about once
\* every 100 iterations: the number of iterations the loop has begun is at
\* most 100 times one more than the number of lines it has logged (one period
\* of slack).
C15_TelemetryRecurs ==
    iters <= (emitted + 1) * LogEvery

\* The node of the pod is terminal and not daemoned and the pod is not
\* labelled: the label is due.
LabelDue(node, label) ==
    node # NoNode /\ Completed(node) /\ ~IsDaemoned(node) /\ label = ""

\* The call of handlePodUpdate met no failing workflow read or write.
NoGetOrWriteFailure ==
    /\ ret.read /\ ret.nodeBefore # NoNode => ret.applied
    /\ ret.wrote => ret.writeOK

\* The pod carries the workflow label and has terminated.
Terminated(p) == p.hasWorkflowLabel /\ p.phase \in {PodSucceeded, PodFailed}

\* A failed label call leaves the cache and the label as they were, and every
\* name in the cache is the name of a labelled pod.
C16_CacheOnlyLabelled ==
    /\ Handled /\ ret.labelCalled /\ ~ret.labelOK
         => /\ completedPodCache = ret.cacheBefore
            /\ pods[PodId(pod)].labelCompleted = ret.labelBefore
    /\ \A n \in completedPodCache :
         \E id \in Pods : id[2] = n /\ pods[id].labelCompleted = "true"

\* C16 as stated: a failed label call puts no name in the cache, every cached
\* name is that of a labelled pod, and the next observation of a pod whose
\* label is due calls the labeller, whatever applyUpdates returns.
C16_NextObservationRetries ==
    /\ C16_CacheOnlyLabelled
    /\ Handled /\ LabelDue(ret.nodeBefore, ret.labelBefore)
         /\ pod.hasWorkflowLabel
         /\ pod.name \notin ret.cacheBefore /\ NoGetOrWriteFailure
         => ret.labelCalled

\* C16 amended: as C16, but the labeller is called again by the next
\* observation of the pod in phase Succeeded, Failed or Unknown (a Running pod
\* returns earlier), and the pod whose label is due is labelled and cached in
\* the end once it has terminated.
C16_LabelRetried ==
    /\ [](/\ C16_CacheOnlyLabelled
          /\ Handled /\ LabelDue(ret.nodeBefore, ret.labelBefore)
               /\ pod.phase \in {PodSucceeded, PodFailed, PodUnknown}
               /\ pod.hasWorkflowLabel
               /\ pod.name \notin ret.cacheBefore /\ NoGetOrWriteFailure
               => ret.labelCalled)
    /\ \A id \in ObservedPods :
         (LabelDue(wfNodes[id], pods[id].labelCompleted) /\ Terminated(pods[id]))
           ~> (pods[id].labelCompleted = "true" /\ id[2] \in completedPodCache)

\* C16 witness: the label of a terminated pod is due, applyUpdates returns
\* false, and the call labels the pod and puts its name in the cache.
C16_Witness ==
    /\ Handled /\ Terminated(pod)
    /\ LabelDue(ret.nodeBefore, ret.labelBefore)
    /\ ret.applied /\ ~ret.updateNeeded /\ ~ret.wrote
    /\ ret.labelOK
    /\ pod.name \in completedPodCache /\ pod.name \notin ret.cacheBefore

\* C17: a failed workflow write is recovered by a later observation. The
\* failed call leaves the node, the cache and the label as they were; the next
\* call for the same pod reads the workflow again, starts from the node the
\* cluster holds and writes again; and, the pod being delivered again and
\* writes succeeding in the end, the node of every pod that is Succeeded or
\* Failed and has a node is persisted with a terminal phase in the end.
C17_WriteRecovered ==
    /\ [](/\ Handled /\ ret.wrote /\ ~ret.writeOK
               => /\ wfNodes[PodId(pod)] = ret.nodeBefore
                  /\ completedPodCache = ret.cacheBefore
                  /\ pods[PodId(pod)].labelCompleted = ret.labelBefore
          /\ Handled /\ ret.afterFailedWrite
               => /\ ret.read
                  /\ ret.applied => ret.entry = ret.nodeBefore /\ ret.wrote)
    /\ \A id \in ObservedPods :
         (Terminated(pods[id]) /\ wfNodes[id] # NoNode) ~> Completed(wfNodes[id])

\* C17 witness: the write for a terminated pod failed, and the next call for
\* the pod writes the node, which becomes terminal.
C17_Witness ==
    /\ Handled /\ Terminated(pod)
    /\ ret.afterFailedWrite
    /\ ret.wrote /\ ret.writeOK
    /\ ~Completed(ret.nodeBefore)
    /\ Completed(wfNodes[PodId(pod)])

\* The daemon status handed to applyUpdates is present: neither nil nor false.
Present(daemon) == daemon \notin {Nil, "false"}

\* C18: applyUpdates takes an explicit false for absent and changes daemoned
\* only when presence flips; podIP is set to the pod's IP on a flip to present
\* and is the same as on entry in every other case, a flip to absent and a nil
\* newDaemonStatus included.
C18_DaemonAndPodIP ==
    Handled /\ ret.applied
      => LET flips == ret.newDaemonStatus # Nil
                        /\ Present(ret.newDaemonStatus) # (ret.entry.daemoned # Nil)
         IN  /\ ret.node.daemoned =
                   IF flips
                   THEN (IF Present(ret.newDaemonStatus) THEN ret.newDaemonStatus ELSE Nil)
                   ELSE ret.entry.daemoned
             /\ ret.node.podIP =
                   IF flips /\ Present(ret.newDaemonStatus) THEN pod.podIP
                   ELSE ret.entry.podIP

\* The node is Succeeded and daemoned, as a ready Running daemon pod leaves it.
DaemonedSucceeded(node) ==
    node # NoNode /\ node.phase = NodeSucceeded /\ IsDaemoned(node)

\* C19: when the node is Succeeded and daemoned, an observation of the pod in
\* phase Succeeded or Failed in which no cluster call fails clears daemoned,
\* leaves the phase Succeeded, writes the workflow, labels the pod and puts its
\* name in the cache; until then the pod is not labelled, its name is not in
\* the cache and its events are not skipped.
C19_DaemonLifecycle ==
    /\ Handled /\ Terminated(pod) /\ DaemonedSucceeded(ret.nodeBefore) /\ Reconciled(ret)
         => /\ ret.node.daemoned = Nil
            /\ ret.node.phase = NodeSucceeded
            /\ ret.wrote
            /\ wfNodes[PodId(pod)] = ret.node
            /\ ret.labelOK
            /\ pods[PodId(pod)].labelCompleted = "true"
            /\ pod.name \in completedPodCache
    /\ \A id \in ObservedPods :
         DaemonedSucceeded(wfNodes[id])
           => pods[id].labelCompleted = "" /\ id[2] \notin completedPodCache
    /\ Handled /\ DaemonedSucceeded(ret.nodeBefore) => ~ret.seen /\ pod.labelCompleted = ""

\* C20: once ctx is cancelled Run stops dispatching and returns the context's
\* error: when ctx is cancelled and nothing is left to happen (no event in a
\* channel or being sent, no handler executing), Run has returned.
C20_RunReturnsOnCancel ==
    cancelled /\ ~ENABLED NextRun => pc = "returned"

\* The terminated.finishedAt timestamps of the init and main container
\* statuses of a pod that are set (not the zero time).
TerminatedAt(p) ==
    {p.initContainerStatuses[k].finishedAt :
        k \in {j \in 1..Len(p.initContainerStatuses) : p.initContainerStatuses[j].terminated}}
    \cup
    {p.containerStatuses[k].finishedAt :
        k \in {j \in 1..Len(p.containerStatuses) : p.containerStatuses[j].terminated}}

Latest(times) == CHOOSE t \in times : \A u \in times : u <= t

\* applyUpdates leaves the node terminal and its finishedAt was zero on entry.
FinishedAtDue == Handled /\ ret.applied /\ Completed(ret.node) /\ ret.entry.finishedAt = 0

\* C21 as stated: when applyUpdates leaves a node terminal whose finishedAt
\* was zero, finishedAt is the latest terminated.finishedAt of the pod's init
\* and main containers, and the current time only when no container has one,
\* for daemoned and not daemoned nodes alike.
C21_FinishedAtLatest ==
    FinishedAtDue
      => ret.node.finishedAt =
           IF TerminatedAt(pod) \ {0} # {} THEN Latest(TerminatedAt(pod)) ELSE ret.now

\* C21 amended: that holds for a node that is not daemoned on return; the
\* finishedAt of a node that is daemoned on return is the current time,
\* whatever timestamps the containers have.
C21_FinishedAtLatestAmended ==
    FinishedAtDue
      => ret.node.finishedAt =
           IF ~IsDaemoned(ret.node) /\ TerminatedAt(pod) \ {0} # {}
           THEN Latest(TerminatedAt(pod))
           ELSE ret.now

\* C21 witness: the node is not daemoned and the latest timestamp is not that
\* of the last container.
C21_Witness ==
    /\ FinishedAtDue /\ ~IsDaemoned(ret.node)
    /\ Len(pod.containerStatuses) > 0
    /\ pod.containerStatuses[Len(pod.containerStatuses)].terminated
    /\ pod.containerStatuses[Len(pod.containerStatuses)].finishedAt < ret.node.finishedAt
    /\ ret.node.finishedAt = Latest(TerminatedAt(pod))

\* The events of a stream that were handed to the watch handler and not yet
\* received by Run: those in the channel, oldest first, then the one the
\* handler is sending.
InFlight(s) == Chan(s) \o sending[s]

\* The versions of n events in the order the informer delivered them, the
\* first being the one Run receives next.
InTurn(s, n) == [k \in 1..n |-> (received[s] + k - 1) % NumVersions]

\* A step of a watch handler's send or of Run.
SendOrRunStep ==
    \/ watchWorkflows
    \/ watchWorkflowPods
    \/ RunLoopHead
    \/ \E s \in Streams : RunSelect(s)
    \/ \E h \in Handlers : HandlerReturns(h)

\* C22: no event is dropped or reordered between a watch and the dispatch
\* loop. Every event Run received of a stream was the next one the informer
\* had delivered; the events not yet received are, in delivery order, in the
\* channel and then in the hands of the blocked handler, none missing and none
\* twice; a channel never holds more than its capacity, the handler keeping its
\* event while the channel is full; and while an event is in flight, a send or
\* a step of Run can happen.
C22_NoEventLostOrReordered ==
    /\ \A s \in Streams :
         /\ inOrder[s]
         /\ Len(Chan(s)) <= Cap(s)
         /\ InFlight(s) = InTurn(s, Len(InFlight(s)))
         /\ (received[s] + Len(InFlight(s))) % NumVersions = sent[s]
    /\ (\E s \in Streams : InFlight(s) # <<>>) => ENABLED SendOrRunStep

\* C22 witness: the pod channel was full with the handler holding the next
\* event, Run received the oldest event in its turn, and the handler's send
\* then filled the channel again.
C22_Witness ==
    /\ op = "send"
    /\ pc = "handlePodUpdate"
    /\ Len(podUpdates) = podUpdatesCap
    /\ sending["pod"] = <<>>
    /\ inOrder["pod"]
    /\ iters >= 2

\* C23: completion dedup is per pod. When the controller watches all
\* namespaces, an observation of a terminated workflow pod that was never
\* labelled completed is not suppressed by the completed-pod cache, whatever
\* pods of other namespaces the cache records: handlePodUpdate goes on to the
\* pod's own node.
C23_DedupPerPod ==
    /\ op = "handlePodUpdate"
    /\ Config.namespace = ""
    /\ Terminated(pod)
    /\ ret.labelBefore # "true"
    => ~ret.seen

====
